---- MODULE Spec2Model ----
(***************************************************************************)
(* Model of src/app.py: get_published_after, parse_iso_date and            *)
(* get_trending_topics (YouTube Trends Explorer).                          *)
(*                                                                         *)
(* A datetime is a record [day, sec, us]: the ordinal day of the calendar  *)
(* date, the second of the day and the microsecond field.  An ISO string   *)
(* is a record [day, sec, frac, z]: frac is the sequence of decimal digits *)
(* after the "." (<<>> when the string has no fractional part) and z tells *)
(* whether the string ends in "Z".  A dict is a function; a key that is    *)
(* missing is a key that is not in its DOMAIN.                             *)
(***************************************************************************)
EXTENDS Integers, Sequences, FiniteSets, TLC

\* ------------------------------------------------------------------ bounds
MaxItems == 2       \* longest list drawn over SampleRecords
NCat == 11          \* number of distinct categories in the long lists
MaxExtra == 1       \* records appended to a long list after the rotation
Today == 200        \* ordinal day of the current date

\* --------------------------------------------------------------- constants
TopN == 10          \* most_common(10)
MaxResults == 50    \* maxResults=50
MicroDigits == 6    \* %f: one to six digits, microsecond precision

VARIABLES pc, time_span, region, now, published_after, region_code, calls,
          items, threshold_date, filtered_items, idx, category_counter,
          category_videos, top_categories, category_ids_list,
          category_mapping, topics, result, raised, ui

vars == <<pc, time_span, region, now, published_after, region_code, calls,
          items, threshold_date, filtered_items, idx, category_counter,
          category_videos, top_categories, category_ids_list,
          category_mapping, topics, result, raised, ui>>

\* ------------------------------------------------------------ pure helpers
RECURSIVE Pow10(_)
Pow10(n) == IF n = 0 THEN 1 ELSE 10 * Pow10(n - 1)

RECURSIVE SumTo(_, _)
\* sum of f[1..n]
SumTo(f, n) == IF n = 0 THEN 0 ELSE f[n] + SumTo(f, n - 1)

\* datetime.isoformat("T"): the fraction is printed only when the
\* microsecond field is not zero, and then with all six digits.
IsoFormat(dt) ==
    [day |-> dt.day, sec |-> dt.sec,
     frac |-> IF dt.us = 0 THEN <<>>
              ELSE [i \in 1..MicroDigits |->
                       (dt.us \div Pow10(MicroDigits - i)) % 10],
     z |-> FALSE]

\* + "Z"
AppendZ(s) == [s EXCEPT !.z = TRUE]

\* value of the %f field: the digits are left-justified microseconds
FracMicros(frac) ==
    SumTo([i \in 1..Len(frac) |-> frac[i] * Pow10(MicroDigits - i)], Len(frac))

\* strptime(date_str, "%Y-%m-%dT%H:%M:%S.%fZ")
MatchesFractional(s) == s.z /\ Len(s.frac) >= 1 /\ Len(s.frac) <= MicroDigits

\* strptime(date_str, "%Y-%m-%dT%H:%M:%SZ")
MatchesPlain(s) == s.z /\ Len(s.frac) = 0

formats == <<"fractional", "plain">>

Matches(fmt, s) == IF fmt = "fractional" THEN MatchesFractional(s)
                   ELSE MatchesPlain(s)

\* parse_iso_date applied to the value of d.get(key): a missing key gives
\* None and strptime(None, fmt) raises TypeError, which the ValueError
\* handler of parse_iso_date does not catch.
parse_iso_date(d, key) ==
    IF key \notin DOMAIN d THEN [exc |-> "TypeError"]
    ELSE LET s == d[key]
             ok == {i \in 1..Len(formats) : Matches(formats[i], s)}
         IN IF ok = {} THEN [exc |-> "ValueError"]
            ELSE [exc |-> "none",
                  val |-> [day |-> s.day, sec |-> s.sec,
                           us |-> FracMicros(s.frac)]]

delta_Mut(ts) ==
    IF ts = "1 Week" THEN 7
    ELSE IF ts = "1 Month" THEN 30
    ELSE IF ts = "6 Months" THEN 180
    ELSE 30

\* the timedelta(days=...) chosen by get_published_after
delta(ts) ==
    IF ts = "1 Week" THEN 7
    ELSE IF ts = "1 Month" THEN 30
    ELSE IF ts = "6 Months" THEN 180
    ELSE 7

\* now - delta: a timedelta of whole days changes the date only
MinusDays(dt, days) == [dt EXCEPT !.day = @ - days]

get_published_after(ts, nw) == AppendZ(IsoFormat(MinusDays(nw, delta(ts))))

\* datetime >= datetime
DateGE(a, b) ==
    \/ a.day > b.day
    \/ a.day = b.day /\ a.sec > b.sec
    \/ a.day = b.day /\ a.sec = b.sec /\ a.us >= b.us

keeps_Mut(video_date, threshold) == DateGE(video_date, threshold) /\ video_date # threshold
\* if video_date >= threshold_date
keeps(video_date, threshold) == DateGE(video_date, threshold)

\* ------------------------------------------------------------------ inputs
TimeSpans == {"1 Week", "1 Month", "6 Months", "1 Year"}
Regions == {"Brazil", "World"}
Nows == {[day |-> Today, sec |-> 0, us |-> 0],
         [day |-> Today, sec |-> 0, us |-> 250000]}
Failures == {"network error", "quota exceeded"}

CatId(i) == ToString(i)
AllIds == {CatId(i) : i \in 1..NCat}

TsEqPlain == [day |-> Today - 7, sec |-> 0, frac |-> <<>>, z |-> TRUE]
TsEqFrac == [day |-> Today - 7, sec |-> 0, frac |-> <<2, 5>>, z |-> TRUE]
TsOld == [day |-> Today - 8, sec |-> 1, frac |-> <<9>>, z |-> TRUE]
TsNew == [day |-> Today, sec |-> 0, frac |-> <<>>, z |-> TRUE]
TsNoZ == [day |-> Today, sec |-> 0, frac |-> <<>>, z |-> FALSE]

Video(ts, cat, title) ==
    [snippet |-> [publishedAt |-> ts, categoryId |-> cat, title |-> title]]

SampleRecords ==
    { [id |-> "v0"],
      [snippet |-> [categoryId |-> "1", title |-> "A"]],
      Video(TsNoZ, "1", "A"),
      Video(TsEqPlain, "1", "A"),
      Video(TsEqFrac, "1", "B"),
      Video(TsOld, "2", "C"),
      Video(TsNew, "2", "C"),
      [snippet |-> [publishedAt |-> TsNew, title |-> "A"]],
      [snippet |-> [publishedAt |-> TsNew, categoryId |-> "2"]],
      Video(TsNew, "1", "") }

ShortLists == UNION {[1..n -> SampleRecords] : n \in 0..MaxItems}

\* NCat recent records of NCat distinct categories, starting at category k
Rotation(k) ==
    [j \in 1..NCat |-> Video(TsNew, CatId(((j + k - 2) % NCat) + 1),
                             "T" \o ToString(j))]

\* further records of the first, the second and the last category
Extras ==
    UNION {[1..n -> {Video(TsNew, CatId(c), "X" \o ToString(c)) : c \in {1, 2, NCat}}]
             : n \in 0..MaxExtra}

LongLists == {Rotation(k) \o e : k \in 1..NCat, e \in Extras}

\* one batch that mixes well-formed records with every kind of record the
\* loops skip
MixedList ==
    << Video(TsNoZ, "1", "A"),
       Video(TsEqPlain, "1", "A"),
       [snippet |-> [publishedAt |-> TsNew, title |-> "A"]],
       Video(TsOld, "2", "C"),
       Video(TsEqFrac, "1", "B"),
       [snippet |-> [categoryId |-> "1", title |-> "A"]],
       Video(TsNew, "2", "C"),
       Video(TsNew, "1", ""),
       [snippet |-> [publishedAt |-> TsNew, categoryId |-> "2"]] >>

TrendingResponses ==
    {[items |-> l] : l \in ShortLists \cup LongLists \cup {MixedList}}
      \cup {[kind |-> "youtube#videoListResponse"]}

CategoryTitle(id) == "Name" \o id

KnownSets == {AllIds, {}, {CatId(1)}, AllIds \ {CatId(1)},
              {CatId(i) : i \in {j \in 1..NCat : j % 2 = 1}}}

\* the category entries the endpoint returns for the ids it recognises
Recognised(ids, known) ==
    LET hit == SelectSeq(ids, LAMBDA c : c \in known)
    IN [i \in 1..Len(hit) |->
           [id |-> hit[i], snippet |-> [title |-> CategoryTitle(hit[i])]]]

CategoryResponses(ids) ==
    {[items |-> Recognised(ids, k)] : k \in KnownSets}
      \cup {[kind |-> "youtube#videoCategoryListResponse"]}
      \cup {[items |-> Recognised(ids, AllIds) \o <<[id |-> CatId(1)]>>]}

\* d.get(key, default)
Get(d, key, default) == IF key \in DOMAIN d THEN d[key] ELSE default

\* ------------------------------------------------------------ loop bodies
RECURSIVE FilterLoop(_, _, _, _)
\* for item in items: ... filtered_items.append(item)
FilterLoop(its, threshold, i, acc) ==
    IF i > Len(its) THEN [exc |-> "none", filtered |-> acc]
    ELSE IF "snippet" \notin DOMAIN its[i]
         THEN [exc |-> "KeyError", filtered |-> acc]
    ELSE LET video_date == parse_iso_date(its[i].snippet, "publishedAt")
         IN IF video_date.exc # "none"
            THEN FilterLoop(its, threshold, i + 1, acc)
            ELSE IF keeps(video_date.val, threshold)
                 THEN FilterLoop(its, threshold, i + 1, Append(acc, its[i]))
                 ELSE FilterLoop(its, threshold, i + 1, acc)

\* if category_id and title
Truthy(d, key) == key \in DOMAIN d /\ d[key] # ""

Position(counter, id) ==
    IF \E p \in 1..Len(counter) : counter[p][1] = id
    THEN CHOOSE p \in 1..Len(counter) : counter[p][1] = id
    ELSE 0

CounterIncr_Mut(counter, id) ==
    IF Position(counter, id) = 0 THEN Append(counter, <<id, 1>>)
    ELSE counter

\* category_counter[category_id] += 1; a Counter keeps its keys in
\* insertion order
CounterIncr(counter, id) ==
    IF Position(counter, id) = 0 THEN Append(counter, <<id, 1>>)
    ELSE [counter EXCEPT ![Position(counter, id)] = <<id, @[2] + 1>>]

VideosAppend_Mut(cv, id, title) ==
    IF id \in DOMAIN cv THEN [cv EXCEPT ![id] = <<title>> \o @]
    ELSE cv @@ (id :> <<title>>)

\* category_videos[category_id].append(title)
VideosAppend(cv, id, title) ==
    IF id \in DOMAIN cv THEN [cv EXCEPT ![id] = Append(@, title)]
    ELSE cv @@ (id :> <<title>>)

Min(a, b) == IF a < b THEN a ELSE b

\* sorted(counter.items(), key=count, reverse=True): a stable sort
SortedByCount(counter) ==
    LET before(p) == Cardinality({q \in 1..Len(counter) :
                         \/ counter[q][2] > counter[p][2]
                         \/ counter[q][2] = counter[p][2] /\ q < p})
    IN [k \in 1..Len(counter) |->
           counter[CHOOSE p \in 1..Len(counter) : before(p) = k - 1]]

most_common_NoCut(counter, n) == SortedByCount(counter)

most_common_LateFirst(counter, n) ==
    LET before(p) == Cardinality({q \in 1..Len(counter) :
                         \/ counter[q][2] > counter[p][2]
                         \/ counter[q][2] = counter[p][2] /\ q > p})
        sorted == [k \in 1..Len(counter) |->
                     counter[CHOOSE p \in 1..Len(counter) : before(p) = k - 1]]
    IN SubSeq(sorted, 1, Min(n, Len(counter)))

\* Counter.most_common(n)
most_common(counter, n) ==
    SubSeq(SortedByCount(counter), 1, Min(n, Len(counter)))

ids_list_Mut(top) == [i \in 1..Len(top) |-> top[1][1]]
\* list(dict(top_categories).keys())
ids_list(top) == [i \in 1..Len(top) |-> top[i][1]]

RECURSIVE MappingLoop(_, _, _)
\* for item in categories_response.get("items", []): category_mapping[...] = ...
MappingLoop(its, i, m) ==
    IF i > Len(its) THEN [exc |-> "none", mapping |-> m]
    ELSE IF "id" \notin DOMAIN its[i] \/ "snippet" \notin DOMAIN its[i]
         THEN [exc |-> "KeyError", mapping |-> m]
    ELSE IF "title" \notin DOMAIN its[i].snippet
         THEN [exc |-> "KeyError", mapping |-> m]
    ELSE MappingLoop(its, i + 1,
             [c \in DOMAIN m \cup {its[i].id} |->
                 IF c = its[i].id THEN its[i].snippet.title ELSE m[c]])

cat_name_Mut(mapping, cat_id) == Get(mapping, cat_id, "")
\* category_mapping.get(cat_id, "Unknown")
cat_name(mapping, cat_id) == Get(mapping, cat_id, "Unknown")

\* f"There are {count} popular videos trending in the '{cat_name}' ..."
Comment(count, name) ==
    <<"There are ", count, " popular videos trending in the '", name,
      "' category during this period.">>

\* for cat_id, count in top_categories: topics.append({...})
BuildTopics(top, mapping, cv) ==
    [i \in 1..Len(top) |->
        [topic |-> cat_name(mapping, top[i][1]),
         comment |-> Comment(top[i][2], cat_name(mapping, top[i][1])),
         videos |-> Get(cv, top[i][1], <<>>)]]

Error(text, e) == [level |-> "error", text |-> <<text, e>>]
Info(text) == [level |-> "info", text |-> <<text>>]

\* ----------------------------------------------------------------- state
EmptyDict == [k \in {} |-> ""]

Init ==
    /\ pc = "idle"
    /\ time_span = "1 Week"
    /\ region = "Brazil"
    /\ now = [day |-> Today, sec |-> 0, us |-> 0]
    /\ published_after = get_published_after("1 Week", [day |-> Today, sec |-> 0, us |-> 0])
    /\ region_code = "BR"
    /\ calls = <<>>
    /\ items = <<>>
    /\ threshold_date = [exc |-> "unset"]
    /\ filtered_items = <<>>
    /\ idx = 1
    /\ category_counter = <<>>
    /\ category_videos = EmptyDict
    /\ top_categories = <<>>
    /\ category_ids_list = <<>>
    /\ category_mapping = EmptyDict
    /\ topics = <<>>
    /\ result = <<>>
    /\ raised = "none"
    /\ ui = <<>>

Locals == <<items, threshold_date, filtered_items, idx, category_counter,
            category_videos, top_categories, category_ids_list,
            category_mapping, topics>>

\* main() calls get_trending_topics(time_span, region) on every rerun of
\* the script; lines 45-47 run before the first remote call.
Start(ts, rg, nw) ==
    /\ pc \in {"idle", "done", "raised"}
    /\ time_span' = ts
    /\ region' = rg
    /\ now' = nw
    /\ published_after' = get_published_after(ts, nw)
    /\ region_code' = IF rg = "Brazil" THEN "BR" ELSE "US"
    /\ calls' = <<>>
    /\ items' = <<>>
    /\ threshold_date' = [exc |-> "unset"]
    /\ filtered_items' = <<>>
    /\ idx' = 1
    /\ category_counter' = <<>>
    /\ category_videos' = EmptyDict
    /\ top_categories' = <<>>
    /\ category_ids_list' = <<>>
    /\ category_mapping' = EmptyDict
    /\ topics' = <<>>
    /\ result' = <<>>
    /\ raised' = "none"
    /\ ui' = <<>>
    /\ pc' = "fetch"

\* the request of lines 51-56 and how execute() ended: "ok" or the exception
VideosCall(outcome) ==
    [api |-> "videos.list", part |-> "snippet", chart |-> "mostPopular",
     regionCode |-> region_code, maxResults |-> MaxResults,
     outcome |-> outcome]

\* youtube.videos().list(...).execute() returns; lines 61-64
TrendingCallReturns(resp) ==
    /\ pc = "fetch"
    /\ calls' = Append(calls, VideosCall("ok"))
    /\ items' = Get(resp, "items", <<>>)
    /\ IF Get(resp, "items", <<>>) = <<>>
       THEN /\ ui' = Append(ui, Info("No trending videos found for the selected region."))
            /\ result' = <<>>
            /\ pc' = "done"
       ELSE /\ pc' = "filter"
            /\ UNCHANGED <<ui, result>>
    /\ UNCHANGED <<time_span, region, now, published_after, region_code,
                   threshold_date, filtered_items, idx, category_counter,
                   category_videos, top_categories, category_ids_list,
                   category_mapping, topics, raised>>

\* youtube.videos().list(...).execute() raises; lines 57-59
TrendingCallFails(e) ==
    /\ pc = "fetch"
    /\ calls' = Append(calls, VideosCall(e))
    /\ ui' = Append(ui, Error("Error fetching trending videos: ", e))
    /\ result' = <<>>
    /\ pc' = "done"
    /\ UNCHANGED <<time_span, region, now, published_after, region_code, raised>>
    /\ UNCHANGED Locals

\* lines 66-85
RecencyFilter ==
    /\ pc = "filter"
    /\ LET th == parse_iso_date([s |-> published_after], "s")
       IN /\ threshold_date' = th
          /\ IF th.exc # "none"
             THEN /\ ui' = Append(ui, Error("Error parsing threshold date: ", th.exc))
                  /\ result' = <<>>
                  /\ pc' = "done"
                  /\ UNCHANGED <<filtered_items, raised>>
             ELSE LET r == FilterLoop(items, th.val, 1, <<>>)
                  IN /\ filtered_items' = r.filtered
                     /\ IF r.exc # "none"
                        THEN /\ raised' = r.exc
                             /\ pc' = "raised"
                             /\ UNCHANGED <<ui, result>>
                        ELSE IF r.filtered = <<>>
                        THEN /\ ui' = Append(ui, Info("No trending videos found for the selected time span and region."))
                             /\ result' = <<>>
                             /\ pc' = "done"
                             /\ UNCHANGED raised
                        ELSE /\ pc' = "aggregate"
                             /\ UNCHANGED <<ui, result, raised>>
    /\ UNCHANGED <<time_span, region, now, published_after, region_code, calls,
                   items, idx, category_counter, category_videos,
                   top_categories, category_ids_list, category_mapping, topics>>

\* one iteration of the loop of lines 91-97
AggregateStep ==
    /\ pc = "aggregate"
    /\ idx <= Len(filtered_items)
    /\ LET snippet == Get(filtered_items[idx], "snippet", EmptyDict)
       IN IF Truthy(snippet, "categoryId") /\ Truthy(snippet, "title")
          THEN /\ category_counter' = CounterIncr(category_counter, snippet.categoryId)
               /\ category_videos' = VideosAppend(category_videos, snippet.categoryId, snippet.title)
          ELSE UNCHANGED <<category_counter, category_videos>>
    /\ idx' = idx + 1
    /\ UNCHANGED <<pc, time_span, region, now, published_after, region_code,
                   calls, items, threshold_date, filtered_items,
                   top_categories, category_ids_list, category_mapping,
                   topics, result, raised, ui>>

\* lines 99-107, after the loop
SelectTop ==
    /\ pc = "aggregate"
    /\ idx > Len(filtered_items)
    /\ IF category_counter = <<>>
       THEN /\ ui' = Append(ui, Info("No category information found for the videos."))
            /\ result' = <<>>
            /\ pc' = "done"
            /\ UNCHANGED <<top_categories, category_ids_list>>
       ELSE /\ top_categories' = most_common(category_counter, TopN)
            /\ category_ids_list' = ids_list(most_common(category_counter, TopN))
            /\ pc' = "lookup"
            /\ UNCHANGED <<ui, result>>
    /\ UNCHANGED <<time_span, region, now, published_after, region_code, calls,
                   items, threshold_date, filtered_items, idx,
                   category_counter, category_videos, category_mapping,
                   topics, raised>>

\* id=",".join(category_ids_list)
CategoriesCall(outcome) ==
    [api |-> "videoCategories.list", part |-> "snippet",
     id |-> category_ids_list, outcome |-> outcome]

\* youtube.videoCategories().list(...).execute() returns; lines 117-121
CategoryCallReturns(resp) ==
    /\ pc = "lookup"
    /\ calls' = Append(calls, CategoriesCall("ok"))
    /\ LET r == MappingLoop(Get(resp, "items", <<>>), 1, EmptyDict)
       IN /\ category_mapping' = r.mapping
          /\ IF r.exc # "none"
             THEN /\ raised' = r.exc
                  /\ pc' = "raised"
             ELSE /\ pc' = "assemble"
                  /\ UNCHANGED raised
    /\ UNCHANGED <<time_span, region, now, published_after, region_code,
                   items, threshold_date, filtered_items, idx,
                   category_counter, category_videos, top_categories,
                   category_ids_list, topics, result, ui>>

CategoryCallFails_Mut(e) ==
    /\ pc = "lookup"
    /\ calls' = Append(calls, CategoriesCall(e))
    /\ ui' = Append(ui, Error("Error fetching category details: ", e))
    /\ result' = BuildTopics(top_categories, category_mapping, category_videos)
    /\ pc' = "done"
    /\ UNCHANGED <<time_span, region, now, published_after, region_code,
                   items, threshold_date, filtered_items, idx,
                   category_counter, category_videos, top_categories,
                   category_ids_list, category_mapping, topics, raised>>

\* youtube.videoCategories().list(...).execute() raises; lines 113-115
CategoryCallFails(e) ==
    /\ pc = "lookup"
    /\ calls' = Append(calls, CategoriesCall(e))
    /\ ui' = Append(ui, Error("Error fetching category details: ", e))
    /\ result' = <<>>
    /\ pc' = "done"
    /\ UNCHANGED <<time_span, region, now, published_after, region_code,
                   items, threshold_date, filtered_items, idx,
                   category_counter, category_videos, top_categories,
                   category_ids_list, category_mapping, topics, raised>>

\* lines 123-131
ReportAssembler ==
    /\ pc = "assemble"
    /\ topics' = BuildTopics(top_categories, category_mapping, category_videos)
    /\ result' = BuildTopics(top_categories, category_mapping, category_videos)
    /\ pc' = "done"
    /\ UNCHANGED <<time_span, region, now, published_after, region_code, calls,
                   items, threshold_date, filtered_items, idx,
                   category_counter, category_videos, top_categories,
                   category_ids_list, category_mapping, raised, ui>>

Next ==
    \/ \E ts \in TimeSpans, rg \in Regions, nw \in Nows : Start(ts, rg, nw)
    \/ \E resp \in TrendingResponses : TrendingCallReturns(resp)
    \/ \E e \in Failures : TrendingCallFails(e)
    \/ RecencyFilter
    \/ AggregateStep
    \/ SelectTop
    \/ \E resp \in CategoryResponses(category_ids_list) : CategoryCallReturns(resp)
    \/ \E e \in Failures : CategoryCallFails(e)
    \/ ReportAssembler

Spec == Init /\ [][Next]_vars

\* ------------------------------------------------------------- properties
\* the filter loop ran to its end
FilterDone ==
    /\ threshold_date.exc = "none"
    /\ ~(pc = "raised" /\ Len(calls) = 1)

\* the record is counted by the aggregation loop
Counted(item) ==
    /\ "snippet" \in DOMAIN item
    /\ "categoryId" \in DOMAIN item.snippet /\ item.snippet.categoryId # ""
    /\ "title" \in DOMAIN item.snippet /\ item.snippet.title # ""

CountedOf(recs, c) ==
    SelectSeq(recs, LAMBDA it : Counted(it) /\ it.snippet.categoryId = c)

\* titles of the counted records of category c, in the order of recs
TitlesOf(recs, c) ==
    [i \in 1..Len(CountedOf(recs, c)) |-> CountedOf(recs, c)[i].snippet.title]

CatsOf(recs) ==
    {recs[i].snippet.categoryId : i \in {j \in 1..Len(recs) : Counted(recs[j])}}

FirstOf(recs, c) ==
    CHOOSE i \in 1..Len(recs) :
        /\ Counted(recs[i]) /\ recs[i].snippet.categoryId = c
        /\ \A j \in 1..(i - 1) : ~(Counted(recs[j]) /\ recs[j].snippet.categoryId = c)

CountSum == SumTo([p \in 1..Len(category_counter) |-> category_counter[p][2]],
                  Len(category_counter))

\* the topics were assembled and returned
Reported == pc = "done" /\ Len(calls) = 2 /\ calls[2].outcome = "ok"

C2_TopTenNonIncreasing ==
    (pc = "done") =>
        /\ Len(result) <= 10
        /\ \A i \in 1..(Len(result) - 1) :
              result[i].comment[2] >= result[i + 1].comment[2]

C2_Witness ==
    /\ Reported
    /\ Len(category_counter) > 10
    /\ Len(result) = 10
    /\ result[1].comment[2] > result[2].comment[2]

\* C3 as stated: after the aggregation loop the counts sum to the number of
\* records that survived the recency filter.
C3_SumIsFilteredLength ==
    (FilterDone /\ idx > Len(filtered_items)) => CountSum = Len(filtered_items)

\* C3 amended: after the aggregation loop the counts sum to the number of
\* surviving records that have a non-empty category id and a non-empty title.
C3_SumIsCountedLength ==
    (FilterDone /\ idx > Len(filtered_items)) =>
        CountSum = Len(SelectSeq(filtered_items, Counted))

C3_Witness ==
    /\ FilterDone /\ idx > Len(filtered_items)
    /\ CountSum >= 2
    /\ CountSum < Len(filtered_items)

\* C4: when a remote call raised, the invocation ends with the error shown,
\* an empty topic list and no exception.
C4_RemoteFailureGivesEmpty ==
    \A i \in 1..Len(calls) :
        calls[i].outcome # "ok" =>
            /\ pc = "done"
            /\ raised = "none"
            /\ result = <<>>
            /\ Len(ui) = 1
            /\ ui[1].level = "error"
            /\ ui[1].text[2] = calls[i].outcome

\* the category call raised after the aggregation had produced counts
C4_Witness ==
    /\ pc = "done"
    /\ Len(calls) = 2 /\ calls[2].outcome # "ok"
    /\ CountSum >= 2

\* C5: report generation never raises.
C5_NeverRaises == pc # "raised" /\ raised = "none"

\* C6: every selected category is reported at its position with its count
\* and titles; an id the lookup did not return is named "Unknown", the
\* others carry the name the lookup returned.
C6_UnknownStillReported ==
    Reported =>
        /\ Len(result) = Len(top_categories)
        /\ \A i \in 1..Len(top_categories) :
              LET c == top_categories[i][1]
                  returned == \E k \in 1..Len(calls[2].id) :
                                 calls[2].id[k] = c /\ c \in DOMAIN category_mapping
              IN /\ result[i].topic = IF returned THEN CategoryTitle(c) ELSE "Unknown"
                 /\ result[i].comment = Comment(Len(TitlesOf(filtered_items, c)), result[i].topic)
                 /\ result[i].videos = TitlesOf(filtered_items, c)

C6_Witness ==
    /\ Reported
    /\ \E i, j \in 1..Len(result) :
          /\ i < j
          /\ result[i].topic = "Unknown"
          /\ result[j].topic # "Unknown"
          /\ Len(result[i].videos) >= 2

\* C7: the cutoff is now minus 7 days for '1 Week', 30 days for '1 Month',
\* 180 days for '6 Months' and 7 days for any other value, and it is always
\* produced.
C7_CutoffTable ==
    LET days == CASE time_span = "1 Week" -> 7
                  [] time_span = "1 Month" -> 30
                  [] time_span = "6 Months" -> 180
                  [] OTHER -> 7
    IN /\ parse_iso_date([s |-> published_after], "s") =
              [exc |-> "none",
               val |-> [day |-> now.day - days, sec |-> now.sec, us |-> now.us]]
       /\ threshold_date.exc \in {"unset", "none"}

C7_Witness ==
    /\ pc = "aggregate"
    /\ time_span \notin {"1 Week", "1 Month", "6 Months"}
    /\ now.us # 0
    /\ threshold_date.val.day = now.day - 7

\* C8: the selected categories are the 10 (or fewer) best by count, ties
\* going to the category first met earlier in the filtered list, and they
\* are listed in that order.
C8_TopByCountThenFirstSeen ==
    (pc \in {"lookup", "assemble"} \/ Reported) =>
        LET sel == {top_categories[i][1] : i \in 1..Len(top_categories)}
            cats == CatsOf(filtered_items)
            count(c) == Len(CountedOf(filtered_items, c))
            ahead(c, d) ==
                \/ count(c) > count(d)
                \/ count(c) = count(d)
                     /\ FirstOf(filtered_items, c) < FirstOf(filtered_items, d)
        IN /\ sel \subseteq cats
           /\ Cardinality(sel) = Len(top_categories)
           /\ Len(top_categories) = IF Cardinality(cats) < 10 THEN Cardinality(cats) ELSE 10
           /\ \A i \in 1..Len(top_categories) :
                 top_categories[i][2] = count(top_categories[i][1])
           /\ \A i, j \in 1..Len(top_categories) :
                 i < j => ahead(top_categories[i][1], top_categories[j][1])
           /\ \A c \in sel, d \in cats \ sel : ahead(c, d)

\* more than 10 categories and a tie across the cut
C8_Witness ==
    /\ pc = "assemble"
    /\ Len(category_counter) > 10
    /\ Len(top_categories) = 10
    /\ \E p \in 1..Len(category_counter) :
          /\ \A i \in 1..10 : top_categories[i][1] # category_counter[p][1]
          /\ category_counter[p][2] = top_categories[10][2]
    /\ top_categories[1][2] > top_categories[10][2]

\* C9: the trending call is the first and only videos call; the category
\* lookup happens at most once, after a successful trending call and a
\* non-empty aggregation, with exactly the selected ids, each once.
C9_CallOrder ==
    /\ Len(calls) <= 2
    /\ (pc \notin {"idle", "fetch"}) => Len(calls) >= 1
    /\ Len(calls) >= 1 => calls[1].api = "videos.list"
    /\ Len(calls) = 2 =>
          /\ calls[2].api = "videoCategories.list"
          /\ calls[1].outcome = "ok"
          /\ CatsOf(filtered_items) # {}
          /\ Len(calls[2].id) = Len(top_categories)
          /\ Len(calls[2].id) <= 10
          /\ \A i \in 1..Len(top_categories) : calls[2].id[i] = top_categories[i][1]
          /\ \A i, j \in 1..Len(calls[2].id) :
                i # j => calls[2].id[i] # calls[2].id[j]
          /\ \A k \in 1..Len(ui) : ui[k].level = "error" /\ k = Len(ui)
    /\ (\E k \in 1..Len(ui) : ui[k].level = "info") => Len(calls) = 1

C9_Witness ==
    /\ Len(calls) = 2
    /\ Len(calls[2].id) = 10
    /\ Len(category_counter) > 10

\* C10: during and after the aggregation loop the count of every category
\* is the length of its title list, which holds the titles of its counted
\* records in filtered order; the same holds of every returned topic.
C10_CountMatchesTitles ==
    /\ (FilterDone /\ pc # "filter") =>
          LET seen == SubSeq(filtered_items, 1, idx - 1)
          IN /\ DOMAIN category_videos = CatsOf(seen)
             /\ \A p \in 1..Len(category_counter) :
                   LET c == category_counter[p][1]
                   IN /\ c \in DOMAIN category_videos
                      /\ category_counter[p][2] = Len(category_videos[c])
                      /\ category_videos[c] = TitlesOf(seen, c)
    /\ Reported =>
          \A i \in 1..Len(result) :
              /\ result[i].comment[2] = Len(result[i].videos)
              /\ result[i].videos = TitlesOf(filtered_items, top_categories[i][1])

C10_Witness ==
    /\ Reported
    /\ \E i \in 1..Len(result) :
          /\ Len(result[i].videos) >= 2
          /\ result[i].videos[1] # result[i].videos[2]

====
